---- MODULE Spec2Model ----
(***************************************************************************)
(* BatchGenerator (src/js/batch.js): seed resolution from the four seed    *)
(* input methods, the sequential generateBatch loop with its in-progress   *)
(* guard, per-seed failure handling and progress reports, and the names of *)
(* the generated files.                                                    *)
(*                                                                         *)
(* Text is a sequence of one-character strings, so that split, trim and    *)
(* parseInt are computed character by character.  A handler runs           *)
(* atomically up to its next suspension point: generateBatch suspends      *)
(* once per seed, at "await this.generateMazeForSeed(seed)".  Each         *)
(* Math.random() call inside generateRandomSeeds is one environment input, *)
(* taken by the step DrawRandom; no other handler runs between two draws.  *)
(***************************************************************************)
EXTENDS Integers, Sequences, FiniteSets, TLC

\* ---------------------------------------------------------------- state
VARIABLES
    model,           \* this.model
    seedInput,       \* the seed method radio and the seed input fields
    preview,         \* #seedPreview and #seedCount
    isGenerating,    \* this.isGenerating
    generatedFiles,  \* this.generatedFiles
    errors,          \* this.errors
    pc,              \* generateBatch: "idle", "await" (suspended), "done"
    seeds,           \* generateBatch's seeds
    kinds,           \* generateBatch's generateMaze/Solution/Distance
    i,               \* the loop's seed position, from 1
    currentStep,     \* generateBatch's currentStep
    totalSteps,      \* generateBatch's totalSteps
    pending,         \* the awaited promise: <<maze>>, or <<>> when rejected
    draw,            \* generateRandomSeeds' loop, while it runs
    progress,        \* the fractions passed to updateProgress in this run
    outcome,         \* per seed position processed: "ok" or where it failed
    fileLog,         \* per generated file: <<seed position, kind>>
    engineCalls,     \* buildMaze calls of this run
    activeRuns,      \* generateBatch loops started and not completed
    lastOp,          \* the last handler step and what it returned or alerted
    results,         \* #resultsContainer: hidden, or the summary it shows
    startModel,      \* this.model as it was when the run started
    configChanges,   \* settings changes made so far
    zipJobs,         \* downloadAsZip calls suspended at zip.generateAsync
    shipped,         \* what the last downloadZip step handed to the browser
    jszip            \* typeof JSZip !== 'undefined' on this page

runVars == <<isGenerating, generatedFiles, errors, pc, seeds, kinds, i, currentStep,
             totalSteps, pending, progress, outcome, fileLog, engineCalls, activeRuns,
             results, startModel>>
packVars == <<zipJobs, shipped, jszip>>
vars == <<model, seedInput, preview, draw, lastOp, runVars, configChanges, packVars>>

\* ------------------------------------------------------------------ bounds
\* downloadAsZip calls that may be suspended at the same time.
MaxZipJobs == 1
\* Changes of the settings followed from one page load.
MaxChanges == 1
\* Longest text typed into the comma and preset fields (SpecResolve).
MaxTextLen == 4
\* Math.random() is drawn from {0/RandDen, ..., (RandDen-1)/RandDen}.
RandDen == 5
\* The range start and end fields hold the integers -2 .. RangeHi (or nothing).
RangeHi == 5

\* ------------------------------------------------------- program constants
MaxSeeds == 100
MaxRandomCount == 100
RandomSpan == 999999
DefaultCount == 5
DefaultStep == 1
PreviewLen == 10

\* ------------------------------------------------------------------- text
Digits == <<"0", "1", "2", "3", "4", "5", "6", "7", "8", "9">>
HexLetters == <<"a", "b", "c", "d", "e", "f">>
HexCapitals == <<"A", "B", "C", "D", "E", "F">>

IndexIn(seq, c) == IF \E k \in 1..Len(seq) : seq[k] = c
                   THEN CHOOSE k \in 1..Len(seq) : seq[k] = c
                   ELSE 0

\* The value of character c as a digit in the given radix, or -1.
DigitVal(c, radix) ==
    IF IndexIn(Digits, c) > 0 THEN IndexIn(Digits, c) - 1
    ELSE IF radix = 16 /\ IndexIn(HexLetters, c) > 0 THEN IndexIn(HexLetters, c) + 9
    ELSE IF radix = 16 /\ IndexIn(HexCapitals, c) > 0 THEN IndexIn(HexCapitals, c) + 9
    ELSE -1

IsSpace(c) == c = " "

\* The function f on 1..n as the list of its values (evaluated once).
ListOf(f) == f \o <<>>

RECURSIVE TrimLeft(_)
TrimLeft(s) == IF s # <<>> /\ IsSpace(Head(s)) THEN TrimLeft(Tail(s)) ELSE s

RECURSIVE TrimRight(_)
TrimRight(s) == IF s # <<>> /\ IsSpace(s[Len(s)])
                THEN TrimRight(SubSeq(s, 1, Len(s) - 1))
                ELSE s

\* String.prototype.trim
Trim(s) == TrimRight(TrimLeft(s))

\* String.prototype.split(','): the pieces between consecutive commas, one
\* more than there are commas.  (Computed from the comma positions, not by a
\* scan, so that a text of a hundred seeds needs no deep recursion.)
SplitComma(s) ==
    LET commas == SelectSeq([k \in 1..Len(s) |-> k], LAMBDA k : s[k] = ",")
        cuts == <<0>> \o commas \o <<Len(s) + 1>>
    IN ListOf([j \in 1..(Len(commas) + 1) |-> SubSeq(s, cuts[j] + 1, cuts[j + 1] - 1)])

\* input.split(',').map(s => s.trim()).filter(s => s.length > 0)
Tokens(s) ==
    LET parts == SplitComma(s)
        trimmed == ListOf([k \in 1..Len(parts) |-> Trim(parts[k])])
    IN SelectSeq(trimmed, LAMBDA t : Len(t) > 0)

\* A number as parseInt returns it: NaN, or an integer.
NaN == [nan |-> TRUE, val |-> 0]
Num(n) == [nan |-> FALSE, val |-> n]

RECURSIVE DigitPrefix(_, _, _, _)
\* The value of the longest prefix of s made of digits of the radix; seen
\* tells whether at least one digit was read.
DigitPrefix(s, radix, acc, seen) ==
    IF s # <<>> /\ DigitVal(Head(s), radix) >= 0
    THEN DigitPrefix(Tail(s), radix, acc * radix + DigitVal(Head(s), radix), TRUE)
    ELSE [seen |-> seen, val |-> acc]

\* parseInt(s) with no radix: leading white space is skipped, a sign is
\* read, a 0x or 0X prefix selects radix 16, then the longest prefix of
\* digits is the value; whatever follows the digits is ignored; NaN when
\* there is no digit.
ParseInt(s) ==
    LET t == TrimLeft(s)
        neg == t # <<>> /\ Head(t) = "-"
        u == IF t # <<>> /\ Head(t) \in {"-", "+"} THEN Tail(t) ELSE t
        hex == Len(u) >= 2 /\ u[1] = "0" /\ u[2] \in {"x", "X"}
        body == IF hex THEN SubSeq(u, 3, Len(u)) ELSE u
        p == DigitPrefix(body, IF hex THEN 16 ELSE 10, 0, FALSE)
    IN IF ~p.seen THEN NaN
       ELSE Num(IF neg THEN 0 - p.val ELSE p.val)

\* parseInt(x) || d: NaN and 0 are falsy.
OrDefault(p, d) == IF p.nan \/ p.val = 0 THEN d ELSE p.val

\* ------------------------------------------------- results of a resolution
\* getSeedsFromInput returns a seed list or throws an Error with a message.
\* A message is a sequence: its fixed text, then the characters spliced in.
Returned(list) == [ok |-> TRUE, seeds |-> list, error |-> <<>>]
Thrown(msg) == [ok |-> FALSE, seeds |-> <<>>, error |-> msg]
NoResult == [ok |-> FALSE, seeds |-> <<>>, error |-> <<"none">>]

\* for (const seed of seeds) { num = parseInt(seed); if (isNaN(num)) throw
\* new Error(`Invalid seed: ${seed}`); parsedSeeds.push(num) }: the loop
\* throws at the first token parseInt cannot read, and otherwise returns
\* every token's number, in order.
ParseTokens(tokens) ==
    LET unread == {k \in 1..Len(tokens) : ParseInt(tokens[k]).nan}
    IN IF unread # {}
       THEN Thrown(<<"Invalid seed: ">>
                   \o tokens[CHOOSE k \in unread : \A j \in unread : k <= j])
       ELSE Returned(ListOf([k \in 1..Len(tokens) |-> ParseInt(tokens[k]).val]))

parseCommaSeeds(input) ==
    IF Trim(input) = <<>> THEN Returned(<<>>)
    ELSE ParseTokens(Tokens(input))

\* A plausible slip: the preset's empty tokens are not filtered out.
parsePresetSeedsUnfiltered(preset) ==
    IF preset = <<>> THEN Returned(<<>>)
    ELSE ParseTokens(SplitComma(preset))

parsePresetSeeds(preset) ==
    IF preset = <<>> THEN Returned(<<>>)
    ELSE ParseTokens(Tokens(preset))

\* A plausible slip: the forward loop stops before end.
UpWhileBefore(at, end) == at < end

\* The forward loop's condition: i <= end
UpWhile(at, end) == at <= end

\* The backward loop's condition: i >= end
DownWhile(at, end) == at >= end

Abs(n) == IF n < 0 THEN 0 - n ELSE n

\* for (let i = start; i <= end; i += step) seeds.push(i): the loop makes
\* n turns, n the first turn whose condition fails (step >= 1, so that is
\* within |end - start| + 1 turns), and pushes start + k * step at turn k.
RangeUp(start, end, step) ==
    LET n == CHOOSE n \in 0..(Abs(end - start) + 1) :
                 /\ ~UpWhile(start + n * step, end)
                 /\ \A k \in 0..(n - 1) : UpWhile(start + k * step, end)
    IN ListOf([k \in 1..n |-> start + (k - 1) * step])

\* for (let i = start; i >= end; i -= step) seeds.push(i)
RangeDown(start, end, step) ==
    LET n == CHOOSE n \in 0..(Abs(end - start) + 1) :
                 /\ ~DownWhile(start - n * step, end)
                 /\ \A k \in 0..(n - 1) : DownWhile(start - k * step, end)
    IN ListOf([k \in 1..n |-> start - (k - 1) * step])

\* Handle both forward and backward ranges.
RangeLoops(start, end, step) ==
    IF start <= end THEN RangeUp(start, end, step)
    ELSE RangeDown(start, end, step)

parseRangeSeeds(startText, endText, stepText) ==
    LET start == ParseInt(startText)
        end == ParseInt(endText)
        step == OrDefault(ParseInt(stepText), DefaultStep)
    IN IF start.nan \/ end.nan
       THEN Thrown(<<"Please enter valid start and end values">>)
       ELSE IF step <= 0 THEN Thrown(<<"Step value must be positive">>)
       ELSE Returned(RangeLoops(start.val, end.val, step))

\* const count = parseInt(...) || 5
RandomCount(countText) == OrDefault(ParseInt(countText), DefaultCount)

\* if (count < 1 || count > 100) throw
RandomCountRejected(count) == count < 1 \/ count > MaxRandomCount

\* Math.floor(Math.random() * 999999) + 1, with Math.random() = r / RandDen.
RandomSeedOf(r) == (r * RandomSpan) \div RandDen + 1

RECURSIVE InsertAsc(_, _)
InsertAsc(sorted, x) ==
    IF sorted = <<>> THEN <<x>>
    ELSE IF x - Head(sorted) < 0 THEN <<x>> \o sorted
    ELSE <<Head(sorted)>> \o InsertAsc(Tail(sorted), x)

RECURSIVE SortFrom(_, _)
SortFrom(s, sorted) ==
    IF s = <<>> THEN sorted ELSE SortFrom(Tail(s), InsertAsc(sorted, Head(s)))

\* seeds.sort((a, b) => a - b)
SortAsc(s) == SortFrom(s, <<>>)

\* ------------------------------------------------------------ file names
RECURSIVE JoinInts(_, _)
\* Array.prototype.join(sep) of numbers
JoinInts(values, sep) ==
    IF values = <<>> THEN ""
    ELSE IF Len(values) = 1 THEN ToString(values[1])
    ELSE ToString(values[1]) \o sep \o JoinInts(Tail(values), sep)

\* Object.values(this.model.size): the values in insertion order.
SizeValues(m) == ListOf([k \in 1..Len(m.size) |-> m.size[k].value])

\* `${prefix}_maze_${shape}_${Object.values(size).join('_')}_${seed}.svg`
FileName(prefix, m, seed) ==
    prefix \o "_maze_" \o m.shape \o "_" \o JoinInts(SizeValues(m), "_")
           \o "_" \o ToString(seed) \o ".svg"

\* `Seed ${seed}: ${error.message}`
ErrorEntry(seed, message) == "Seed " \o ToString(seed) \o ": " \o message

\* ------------------------------------------------------ the maze engine
\* buildMaze and the handle it returns (lib/main.js, not part of src/): a
\* handle carries its configuration and seed and two overlays.
BuildMaze(m, seed) ==
    [grid |-> [cellShape |-> m.shape, size |-> m.size],
     algorithm |-> m.algorithm, randomSeed |-> seed, exitConfig |-> m.exitConfig,
     path |-> FALSE, distances |-> FALSE]
FindPathBetween(maze) == [maze EXCEPT !.path = TRUE]
ClearPathAndSolution(maze) == [maze EXCEPT !.path = FALSE]
FindDistancesFrom(maze) == [maze EXCEPT !.distances = TRUE]
ClearDistances(maze) == [maze EXCEPT !.distances = FALSE]
\* maze.render(surface): the markup shows the handle's current state.
Render(maze) == maze
EngineMessage == "engine failure"

\* generateMazeSvg: prolog + elSvg.outerHTML
generateMazeSvg(maze) ==
    [prolog |-> "<?xml version=\"1.0\" standalone=\"no\"?>", svg |-> Render(maze)]

\* ---------------------------------------------------------------- inputs
Chars == {"1", "2", "a", ",", " ", "-"}
TextsUpTo(n) == UNION {[1..k -> Chars] : k \in 0..n}

RECURSIVE NatText(_)
NatText(n) == IF n < 10 THEN <<Digits[n + 1]>>
              ELSE NatText(n \div 10) \o <<Digits[(n % 10) + 1]>>
\* The decimal text a user types for the integer n.
IntText(n) == IF n < 0 THEN <<"-">> \o NatText(0 - n) ELSE NatText(n)

\* The text "1,1,...,1" of n seeds.
OnesText(n) == ListOf([k \in 1..(2 * n - 1) |-> IF k % 2 = 1 THEN "1" ELSE ","])

SeedInput(method, text, start, end, step, count) ==
    [method |-> method, text |-> text, start |-> start, end |-> end,
     step |-> step, count |-> count]
Comma(text) == SeedInput("comma", text, <<>>, <<>>, <<>>, <<>>)
Preset(text) == SeedInput("preset", text, <<>>, <<>>, <<>>, <<>>)
Range(start, end, step) == SeedInput("range", <<>>, start, end, step, <<>>)
Random(count) == SeedInput("random", <<>>, <<>>, <<>>, <<>>, count)

\* Seed inputs of the resolution runs (SpecResolve).
ResolveTexts == TextsUpTo(MaxTextLen) \cup {<<"0", "x", "1", "a">>, OnesText(MaxSeeds + 1)}
NumberTexts == {IntText(n) : n \in (0 - 2)..RangeHi}
               \cup {<<>>, IntText(10), IntText(MaxSeeds + 1)}
StepTexts == {<<>>, IntText(0), IntText(1), IntText(2), IntText(3), IntText(0 - 1)}
CountTexts == {<<>>, IntText(0), IntText(1), IntText(2), IntText(3), IntText(0 - 1),
               IntText(MaxRandomCount), IntText(MaxRandomCount + 1)}
ResolveInputs ==
    {Comma(t) : t \in ResolveTexts} \cup {Preset(t) : t \in ResolveTexts}
    \cup {Range(s, e, st) : s \in NumberTexts, e \in NumberTexts, st \in StepTexts}
    \cup {Random(c) : c \in CountTexts}

\* Seed inputs of the batch runs (Spec).
BatchInputs ==
    {Comma(<<>>), Comma(<<"1", ",", "1">>), Comma(OnesText(MaxSeeds + 1)),
     Preset(<<"2", ",", " ", "1">>), Preset(OnesText(MaxSeeds + 1)),
     Range(IntText(1), IntText(2), IntText(1)),
     Range(IntText(1), IntText(MaxSeeds + 1), <<>>),
     Range(IntText(1), IntText(2), IntText(0 - 1)),
     Random(IntText(1)), Random(IntText(MaxRandomCount + 1))}

\* The three check boxes as generateBatch reads them.
KindChoices == [maze : BOOLEAN, solution : BOOLEAN, distance : BOOLEAN]
NoKinds == [maze |-> FALSE, solution |-> FALSE, distance |-> FALSE]
B2N(b) == IF b THEN 1 ELSE 0
\* generateMaze + generateSolution + generateDistance
KindCount(ks) == B2N(ks.maze) + B2N(ks.solution) + B2N(ks.distance)

\* ------------------------------------------------------------ the preview
Min(a, b) == IF a < b THEN a ELSE b

\* updateSeedPreview's two texts, for a returned list and for a throw.
PreviewOf(result) ==
    IF result.ok
    THEN LET count == Len(result.seeds)
             shown == JoinInts(SubSeq(result.seeds, 1, Min(PreviewLen, count)), ", ")
         IN [text |-> IF count > PreviewLen THEN shown \o "..." ELSE shown,
             count |-> "(" \o ToString(count) \o " seed"
                           \o (IF count # 1 THEN "s" ELSE "") \o ")"]
    ELSE [text |-> "Invalid input", count |-> "(0 seeds)"]

\* ------------------------------------------------------------------ Init
NoDraw == [caller |-> "none", kinds |-> NoKinds, count |-> 0, seeds |-> <<>>,
           used |-> {}, retried |-> FALSE]

\* showProgress hides #resultsContainer; showResults shows it with the
\* counts of files and errors and the error log.  guard is this.isGenerating
\* as it stands when showResults runs.
Hidden == [shown |-> FALSE, files |-> 0, errors |-> <<>>, guard |-> FALSE]
Summary(files, errs, guard) ==
    [shown |-> TRUE, files |-> Len(files), errors |-> errs, guard |-> guard]

\* Nothing handed to the browser: no individual file, no archive.
NoShipment == [files |-> <<>>, archives |-> <<>>]

Op(op, status, alert, res, retried) ==
    [op |-> op, status |-> status, alert |-> alert, res |-> res, retried |-> retried]

\* The settings the constructor ends with when nothing was saved: the
\* square shape, its parameters at their initial values (config.js, not part
\* of src/), its default algorithm, vertical exits.
DefaultModel ==
    [shape |-> "square",
     size |-> <<[name |-> "width", value |-> 10], [name |-> "height", value |-> 10]>>,
     algorithm |-> "defaultAlgorithm", exitConfig |-> "vertical"]

Init ==
    /\ model = DefaultModel
    /\ seedInput = Comma(<<>>)
    /\ preview = PreviewOf(parseCommaSeeds(<<>>))
    /\ isGenerating = FALSE
    /\ generatedFiles = <<>>
    /\ errors = <<>>
    /\ pc = "idle"
    /\ seeds = <<>>
    /\ kinds = NoKinds
    /\ i = 0
    /\ currentStep = 0
    /\ totalSteps = 0
    /\ pending = <<>>
    /\ draw = NoDraw
    /\ progress = <<>>
    /\ outcome = <<>>
    /\ fileLog = <<>>
    /\ engineCalls = 0
    /\ activeRuns = 0
    /\ lastOp = Op("constructor", "shown", <<>>, parseCommaSeeds(<<>>), FALSE)
    /\ results = Hidden
    /\ startModel = DefaultModel
    /\ configChanges = 0
    /\ zipJobs = <<>>
    /\ shipped = NoShipment
    /\ jszip = TRUE

\* ------------------------------------------------------- generateBatch
\* A progress fraction currentStep / totalSteps, kept as the pair.
Frac(num, den) == <<num, den>>

\* A plausible slip: the guard is never honoured.
ReentrantNever == FALSE

\* if (this.isGenerating) return;
Reentrant == isGenerating

\* if (!generateMaze && !generateSolution && !generateDistance)
NoKindSelected(ks) == ~ks.maze /\ ~ks.solution /\ ~ks.distance

\* A plausible slip: the upper limit is not checked.
SeedCountAlertNoCap(sds) ==
    IF Len(sds) = 0 THEN <<"Please provide at least one seed">> ELSE <<>>

\* The alert for a seed list generateBatch rejects, <<>> for one it accepts.
SeedCountAlert(sds) ==
    IF Len(sds) = 0 THEN <<"Please provide at least one seed">>
    ELSE IF Len(sds) > MaxSeeds THEN <<"Maximum 100 seeds allowed">>
    ELSE <<>>

\* Where the processing of a seed can throw, for the kinds requested.
Fates(ks) ==
    {"ok"} \cup (IF ks.maze THEN {"maze"} ELSE {})
           \cup (IF ks.solution THEN {"endpoints", "solution"} ELSE {})
           \cup (IF ks.distance THEN {"distance"} ELSE {})

Message(fate) == IF fate = "endpoints" THEN "No start/end cells found" ELSE EngineMessage

Throw(acc, fate) == [acc EXCEPT !.thrown = <<Message(fate)>>]

\* A plausible slip: unshift for push.
PushFront(acc, maze, prefix, kind, pos, seed) ==
    [acc EXCEPT !.files = <<[name |-> FileName(prefix, model, seed),
                             content |-> generateMazeSvg(maze)]>> \o @,
                !.log = <<<<pos, kind>>>> \o @,
                !.step = @ + 1]

Push(acc, maze, prefix, kind, pos, seed) ==
    [acc EXCEPT !.files = Append(@, [name |-> FileName(prefix, model, seed),
                                     content |-> generateMazeSvg(maze)]),
                !.log = Append(@, <<pos, kind>>),
                !.step = @ + 1]

\* if (generateMaze) { generateMazeSvg; push; currentStep++ }
MazeStage(acc, ks, fate, pos, seed) ==
    IF ~ks.maze \/ acc.thrown # <<>> THEN acc
    ELSE IF fate = "maze" THEN Throw(acc, fate)
    ELSE Push(acc, acc.maze, "Map", "maze", pos, seed)

\* A plausible slip: the path is not cleared after the solution render.
SolutionStageNoClear(acc, ks, fate, pos, seed) ==
    IF ~ks.solution \/ acc.thrown # <<>> THEN acc
    ELSE IF fate \in {"endpoints", "solution"} THEN Throw(acc, fate)
    ELSE LET found == FindPathBetween(acc.maze)
             pushed == Push(acc, found, "Sol", "solution", pos, seed)
         IN [pushed EXCEPT !.maze = found]

\* if (generateSolution) { generateSolutionSvg; push; currentStep++ }
SolutionStage(acc, ks, fate, pos, seed) ==
    IF ~ks.solution \/ acc.thrown # <<>> THEN acc
    ELSE IF fate \in {"endpoints", "solution"} THEN Throw(acc, fate)
    ELSE LET found == FindPathBetween(acc.maze)
             pushed == Push(acc, found, "Sol", "solution", pos, seed)
         IN [pushed EXCEPT !.maze = ClearPathAndSolution(found)]

\* if (generateDistance) { generateDistanceSvg; push; currentStep++ }
DistanceStage(acc, ks, fate, pos, seed) ==
    IF ~ks.distance \/ acc.thrown # <<>> THEN acc
    ELSE IF fate = "distance" THEN Throw(acc, fate)
    ELSE LET found == FindDistancesFrom(acc.maze)
             pushed == Push(acc, found, "Dist", "distance", pos, seed)
         IN [pushed EXCEPT !.maze = ClearDistances(found)]

\* The body of the try block after the await, for the seed at position pos.
TryBody(ks, fate, pos, seed, step) ==
    LET acc0 == [files |-> <<>>, log |-> <<>>, step |-> step,
                 maze |-> IF pending = <<>> THEN BuildMaze(model, seed) ELSE pending[1],
                 thrown |-> IF pending = <<>> THEN <<EngineMessage>> ELSE <<>>]
    IN DistanceStage(SolutionStage(MazeStage(acc0, ks, fate, pos, seed),
                                   ks, fate, pos, seed), ks, fate, pos, seed)

\* A plausible slip: the catch block records nothing.
RecordErrorDropped(errs, seed, message) == errs

\* this.errors.push(`Seed ${seed}: ${error.message}`)
RecordError(errs, seed, message) == Append(errs, ErrorEntry(seed, message))

\* currentStep += (generateMaze + generateSolution + generateDistance)
CatchStep(step, ks) == step + KindCount(ks)

\* A plausible slip: randomSeed is left out of the buildMaze call.
PromiseUnseeded(built, seed) == IF built THEN <<BuildMaze(model, 0)>> ELSE <<>>

\* generateMazeForSeed(seed), called and not yet awaited: the promise it
\* returns holds the maze, or is rejected when the engine throws.
Promise(built, seed) == IF built THEN <<BuildMaze(model, seed)>> ELSE <<>>

\* A plausible slip: the guard is set only after the first await.
GuardNotSet == FALSE

\* this.isGenerating = true
GuardSet == TRUE

\* A plausible slip: a failing seed ends the loop.
NextTurnUnlessFailed(pos, sds, failed) == pos < Len(sds) /\ ~failed

\* for (...; i < seeds.length; i++): the loop goes on after a catch as after
\* a turn that threw nothing.
NextTurn(pos, sds, failed) == pos < Len(sds)

\* A plausible slip: the lists are reset before the input is validated.
RejectAfterReset(alert, result, retried) ==
    /\ lastOp' = Op("generateBatch", "rejected", alert, result, retried)
    /\ generatedFiles' = <<>>
    /\ errors' = <<>>
    /\ UNCHANGED <<preview, isGenerating, pc, seeds, kinds, i, currentStep, totalSteps,
                   pending, progress, outcome, fileLog, engineCalls, activeRuns,
                   results, startModel>>

Reject(alert, result, retried) ==
    /\ lastOp' = Op("generateBatch", "rejected", alert, result, retried)
    /\ UNCHANGED <<preview, runVars>>

StartRun(ks, sds, result, retried) ==
    /\ isGenerating' = GuardSet
    /\ results' = Hidden
    /\ startModel' = model
    /\ generatedFiles' = <<>>
    /\ errors' = <<>>
    /\ seeds' = sds
    /\ kinds' = ks
    /\ totalSteps' = Len(sds) * KindCount(ks)
    /\ currentStep' = 0
    /\ i' = 1
    /\ progress' = <<Frac(0, 1), Frac(0, Len(sds) * KindCount(ks))>>
    /\ outcome' = <<>>
    /\ fileLog' = <<>>
    /\ \E built \in BOOLEAN : pending' = Promise(built, sds[1])
    /\ engineCalls' = 1
    /\ activeRuns' = activeRuns + 1
    /\ pc' = "await"
    /\ lastOp' = Op("generateBatch", "started", <<>>, result, retried)
    /\ UNCHANGED preview

\* generateBatch from the seeds on: lines 421-457.
ContinueBatch(ks, result, retried) ==
    IF ~result.ok THEN Reject(result.error, result, retried)
    ELSE IF SeedCountAlert(result.seeds) # <<>>
    THEN Reject(SeedCountAlert(result.seeds), result, retried)
    ELSE StartRun(ks, result.seeds, result, retried)

\* ------------------------------------------------- getSeedsFromInput
\* The methods that return at once; generateRandomSeeds returns at once
\* only when it rejects the count.
getSeedsFromInput(input) ==
    CASE input.method = "comma" -> parseCommaSeeds(input.text)
      [] input.method = "range" -> parseRangeSeeds(input.start, input.end, input.step)
      [] input.method = "random" -> Thrown(<<"Count must be between 1 and 100">>)
      [] input.method = "preset" -> parsePresetSeeds(input.text)
      [] OTHER -> Thrown(<<"Invalid seed method">>)

EntersRandomLoop(input) ==
    input.method = "random" /\ ~RandomCountRejected(RandomCount(input.count))

\* getSeedsFromInput on the batch runs' seed inputs, computed once and
\* looked up (the lists of a hundred seeds are slow to parse at every step).
BatchResolutions ==
    {<<input, getSeedsFromInput(input)>> : input \in BatchInputs}

Resolve(input) ==
    IF \E p \in BatchResolutions : p[1] = input
    THEN (CHOOSE p \in BatchResolutions : p[1] = input)[2]
    ELSE getSeedsFromInput(input)

\* What the caller of getSeedsFromInput does with its outcome.
EndResolution(caller, ks, result, retried) ==
    IF caller = "updateSeedPreview"
    THEN /\ preview' = PreviewOf(result)
         /\ lastOp' = Op(caller, IF result.ok THEN "shown" ELSE "invalid", <<>>,
                         result, retried)
         /\ UNCHANGED runVars
    ELSE ContinueBatch(ks, result, retried)

BeginResolution(caller, ks, input) ==
    IF EntersRandomLoop(input)
    THEN /\ draw' = [caller |-> caller, kinds |-> ks, count |-> RandomCount(input.count),
                     seeds |-> <<>>, used |-> {}, retried |-> FALSE]
         /\ lastOp' = Op(caller, "drawing", <<>>, NoResult, FALSE)
         /\ UNCHANGED <<preview, runVars>>
    ELSE /\ draw' = draw
         /\ EndResolution(caller, ks, Resolve(input), FALSE)

\* A plausible slip: a drawn seed is never taken as used.
IsUsedNever(used, randomSeed) == FALSE

\* used.has(randomSeed)
IsUsed(used, randomSeed) == randomSeed \in used

\* One turn of generateRandomSeeds' while loop, and the return when the
\* loop ends.
DrawRandom ==
    /\ draw.caller # "none"
    /\ \E r \in 0..(RandDen - 1) :
         LET randomSeed == RandomSeedOf(r)
             fresh == ~IsUsed(draw.used, randomSeed)
             seeds2 == IF fresh THEN Append(draw.seeds, randomSeed) ELSE draw.seeds
             used2 == IF fresh THEN draw.used \cup {randomSeed} ELSE draw.used
             retried2 == draw.retried \/ ~fresh
         IN IF Len(seeds2) < draw.count
            THEN /\ draw' = [draw EXCEPT !.seeds = seeds2, !.used = used2,
                                         !.retried = retried2]
                 /\ UNCHANGED <<preview, lastOp, runVars>>
            ELSE /\ draw' = NoDraw
                 /\ EndResolution(draw.caller, draw.kinds, Returned(SortAsc(seeds2)),
                                  retried2)
    /\ UNCHANGED <<model, seedInput, configChanges, packVars>>

\* updateSeedPreview on the seed input as it stands.
UpdateSeedPreview ==
    /\ draw.caller = "none"
    /\ BeginResolution("updateSeedPreview", NoKinds, seedInput)
    /\ UNCHANGED <<model, seedInput, configChanges, packVars>>

\* The user changes the seed method or a seed field; the listener runs
\* updateSeedPreview.
SetSeedInput(inputs) ==
    /\ draw.caller = "none"
    /\ \E input \in inputs :
         /\ seedInput' = input
         /\ BeginResolution("updateSeedPreview", NoKinds, input)
    /\ UNCHANGED <<model, configChanges, packVars>>

\* generateBatch up to its first suspension point.
GenerateBatch ==
    /\ draw.caller = "none"
    /\ \E ks \in KindChoices :
         IF Reentrant
         THEN /\ lastOp' = Op("generateBatch", "noop", <<>>, NoResult, FALSE)
              /\ UNCHANGED <<preview, draw, runVars>>
         ELSE IF NoKindSelected(ks)
         THEN /\ Reject(<<"Please select at least one generation option">>, NoResult, FALSE)
              /\ UNCHANGED draw
         ELSE BeginResolution("generateBatch", ks, seedInput)
    /\ UNCHANGED <<model, seedInput, configChanges, packVars>>

\* generateBatch resumed after the await: the rest of the try block or the
\* catch block for the seed at position i, then the next turn of the loop up
\* to its await, or the end of generateBatch.
Resume ==
    /\ pc = "await"
    /\ draw.caller = "none"
    /\ \E fate \in Fates(kinds), built \in BOOLEAN :
         LET seed == seeds[i]
             acc == TryBody(kinds, fate, i, seed, currentStep)
             failed == acc.thrown # <<>>
             step2 == IF failed THEN CatchStep(acc.step, kinds) ELSE acc.step
             reported == IF failed THEN progress
                         ELSE Append(progress, Frac(step2, totalSteps))
         IN /\ (pending = <<>>) => (fate = "ok" /\ built)
            /\ generatedFiles' = generatedFiles \o acc.files
            /\ fileLog' = fileLog \o acc.log
            /\ errors' = IF failed THEN RecordError(errors, seed, acc.thrown[1])
                         ELSE errors
            /\ outcome' = Append(outcome, IF pending = <<>> THEN "build"
                                          ELSE IF failed THEN fate ELSE "ok")
            /\ currentStep' = step2
            /\ IF NextTurn(i, seeds, failed)
               THEN /\ i' = i + 1
                    /\ progress' = Append(reported, Frac(step2, totalSteps))
                    /\ pending' = Promise(built, seeds[i + 1])
                    /\ engineCalls' = engineCalls + 1
                    /\ UNCHANGED <<isGenerating, pc, activeRuns, results>>
               ELSE /\ isGenerating' = FALSE
                    /\ pc' = "done"
                    /\ pending' = <<>>
                    /\ activeRuns' = activeRuns - 1
                    /\ progress' = reported
                    /\ results' = Summary(generatedFiles \o acc.files,
                                          IF failed
                                          THEN RecordError(errors, seed, acc.thrown[1])
                                          ELSE errors,
                                          isGenerating')
                    /\ UNCHANGED <<i, engineCalls>>
    /\ lastOp' = Op("generateBatch", "resumed", <<>>, NoResult, FALSE)
    /\ UNCHANGED <<model, seedInput, preview, draw, seeds, kinds, totalSteps,
                   startModel, configChanges, packVars>>

\* ------------------------------------------------------------ downloadZip
\* The archive library, the Blob and URL interfaces and the clock are not
\* part of src/.  An archive holds one entry per file name, in the order the
\* names were first added, with the content added last under that name.
ZipNames(files) ==
    SelectSeq(ListOf([k \in 1..Len(files) |-> k]),
              LAMBDA k : \A j \in 1..(k - 1) : files[j].name # files[k].name)

\* zip.file(file.name, file.content) for every file
ZipOf(files) ==
    LET first == ZipNames(files)
    IN ListOf([n \in 1..Len(first) |->
          LET last == CHOOSE k \in 1..Len(files) :
                          /\ files[k].name = files[first[n]].name
                          /\ \A j \in (k + 1)..Len(files) : files[j].name # files[k].name
          IN [name |-> files[first[n]].name, content |-> files[last].content]])

PackMessage == "packaging failure"
Timestamps == {"2024-01-01T00-00-00"}

\* getAlgorithmDisplayName falls back to the algorithm's id.
AlgorithmDisplayName(algorithmId) == algorithmId

\* shape.charAt(0).toUpperCase() + shape.slice(1)
Capitalized(shape) ==
    CASE shape = "square" -> "Square"
      [] shape = "circle" -> "Circle"
      [] OTHER -> shape

\* `${algorithmName} ${shapeName} ${sizeString} ${timestamp}.zip`
ArchiveName(m, timestamp) ==
    AlgorithmDisplayName(m.algorithm) \o " " \o Capitalized(m.shape) \o " "
        \o JoinInts(SizeValues(m), "x") \o " " \o timestamp \o ".zip"

FileNames(files) == ListOf([k \in 1..Len(files) |-> files[k].name])

\* A plausible slip: the archive is used whether or not the library loaded.
UsesArchiveAlways(available) == TRUE

\* typeof JSZip !== 'undefined'
UsesArchive(available) == available

\* A plausible slip: the catch block swallows the error.
DownloadFailureSilent(message) == <<>>

\* alert('Download failed: ' + error.message)
DownloadFailedAlert(message) == <<"Download failed: " \o message>>

\* downloadZip up to its first suspension point: the whole of it when there
\* is no file or no archive library (downloadFilesIndividually, which can
\* throw at any file, the files before it already handed over), and
\* otherwise downloadAsZip up to "await zip.generateAsync".
DownloadZip ==
    /\ draw.caller = "none"
    /\ IF generatedFiles = <<>>
       THEN /\ lastOp' = Op("downloadZip", "empty", <<"No files to download">>,
                            NoResult, FALSE)
            /\ shipped' = NoShipment
            /\ UNCHANGED zipJobs
       ELSE IF UsesArchive(jszip)
       THEN /\ Len(zipJobs) < MaxZipJobs
            /\ zipJobs' = Append(zipJobs, ZipOf(generatedFiles))
            /\ shipped' = NoShipment
            /\ lastOp' = Op("downloadZip", "zipping", <<>>, NoResult, FALSE)
       ELSE \E failAt \in 0..Len(generatedFiles) :
              LET sent == IF failAt = 0 THEN Len(generatedFiles) ELSE failAt - 1
              IN /\ shipped' = [files |-> FileNames(SubSeq(generatedFiles, 1, sent)),
                                archives |-> <<>>]
                 /\ lastOp' = IF failAt = 0
                              THEN Op("downloadZip", "individual",
                                      <<"Downloaded " \o ToString(Len(generatedFiles))
                                            \o " files individually.">>,
                                      NoResult, FALSE)
                              ELSE Op("downloadZip", "failed",
                                      DownloadFailedAlert(PackMessage), NoResult, FALSE)
                 /\ UNCHANGED zipJobs
    /\ UNCHANGED <<model, seedInput, preview, draw, runVars, configChanges, jszip>>

\* downloadAsZip resumed after "await zip.generateAsync": the promise was
\* rejected, or the archive is handed over under its name (which can throw),
\* and the success is alerted.
ZipDone ==
    /\ draw.caller = "none"
    /\ \E j \in 1..Len(zipJobs), fate \in {"ok", "generate", "emit"},
          timestamp \in Timestamps :
         /\ zipJobs' = SubSeq(zipJobs, 1, j - 1) \o SubSeq(zipJobs, j + 1, Len(zipJobs))
         /\ IF fate = "ok"
            THEN /\ shipped' = [files |-> <<>>,
                                archives |-> <<[name |-> ArchiveName(model, timestamp),
                                                entries |-> zipJobs[j]]>>]
                 /\ lastOp' = Op("downloadZip", "zipped",
                                 <<"Successfully downloaded ZIP file with "
                                       \o ToString(Len(generatedFiles)) \o " files!">>,
                                 NoResult, FALSE)
            ELSE /\ shipped' = NoShipment
                 /\ lastOp' = Op("downloadZip", "failed",
                                 DownloadFailedAlert(PackMessage), NoResult, FALSE)
    /\ UNCHANGED <<model, seedInput, preview, draw, runVars, configChanges, jszip>>

\* ------------------------------------------------- the settings handlers
\* config.js and lib/algorithms.js are not part of src/: two shapes with
\* their parameter schemas, and two algorithms, one of them for squares only.
Shapes == {"square", "circle"}

ShapeParameters(shape) ==
    CASE shape = "square" -> <<[name |-> "width", initial |-> 10],
                               [name |-> "height", initial |-> 10]>>
      [] shape = "circle" -> <<[name |-> "layers", initial |-> 10]>>

DefaultAlgorithmOf(shape) == "defaultAlgorithm"
AlgorithmIds == {"defaultAlgorithm", "squareAlgorithm"}
AlgorithmShapes(algorithmId) ==
    IF algorithmId = "squareAlgorithm" THEN {"square"} ELSE Shapes
ExitConfigs == {"vertical", "horizontal"}
SizeTexts == {IntText(12)}

HasSize(size, name) == \E k \in 1..Len(size) : size[k].name = name

\* this.model.size[name] = value: a known key keeps its place, a new key
\* goes last.
SetSize(size, name, value) ==
    IF HasSize(size, name)
    THEN ListOf([k \in 1..Len(size) |->
                    IF size[k].name = name THEN [name |-> name, value |-> value]
                    ELSE size[k]])
    ELSE Append(size, [name |-> name, value |-> value])

RECURSIVE AddParameters(_, _)
\* updateSizeParameters: every parameter of the shape gets its saved value or
\* its initial one; keys of other shapes stay in model.size.
AddParameters(size, parameters) ==
    IF parameters = <<>> THEN size
    ELSE AddParameters(IF HasSize(size, Head(parameters).name) THEN size
                       ELSE SetSize(size, Head(parameters).name,
                                    Head(parameters).initial),
                       Tail(parameters))

updateSizeParameters(m) ==
    [m EXCEPT !.size = AddParameters(m.size, ShapeParameters(m.shape))]

\* updateAlgorithmSelector: an algorithm the shape does not have is replaced
\* by the shape's default.
updateAlgorithmSelector(m) ==
    IF m.shape \in AlgorithmShapes(m.algorithm) THEN m
    ELSE [m EXCEPT !.algorithm = DefaultAlgorithmOf(m.shape)]

\* What every settings handler leaves alone; saveSettings writes the
\* browser's store only.
Configure(name) ==
    /\ draw.caller = "none"
    /\ configChanges < MaxChanges
    /\ configChanges' = configChanges + 1
    /\ lastOp' = Op(name, "done", <<>>, NoResult, FALSE)
    /\ UNCHANGED <<seedInput, preview, draw, runVars, packVars>>

SelectShape ==
    /\ \E shapeName \in Shapes :
         model' = updateAlgorithmSelector(
                      updateSizeParameters([model EXCEPT !.shape = shapeName]))
    /\ Configure("selectShape")

\* The list offers the algorithms of the current shape.
SelectAlgorithm ==
    /\ \E algorithmId \in AlgorithmIds :
         /\ model.shape \in AlgorithmShapes(algorithmId)
         /\ model' = [model EXCEPT !.algorithm = algorithmId]
    /\ Configure("selectAlgorithm")

SelectExitConfig ==
    /\ \E exitConfig \in ExitConfigs : model' = [model EXCEPT !.exitConfig = exitConfig]
    /\ Configure("selectExitConfig")

\* The fields shown are those of the current shape.
UpdateSizeParameter ==
    /\ \E k \in 1..Len(ShapeParameters(model.shape)), text \in SizeTexts :
         model' = [model EXCEPT !.size = SetSize(@, ShapeParameters(model.shape)[k].name,
                                                 ParseInt(text).val)]
    /\ Configure("updateSizeParameter")

Next ==
    \/ SetSeedInput(BatchInputs)
    \/ GenerateBatch
    \/ DrawRandom
    \/ Resume

Spec == Init /\ [][Next]_vars

\* The same program with its scheduling: the continuation of an await whose
\* promise is settled is run by the event loop (a microtask, ahead of any
\* further event), and the synchronous loop of generateRandomSeeds goes on.
\* (Over three of the seed inputs: a list of two seeds, one random seed, a
\* range that is rejected.)
LiveInputs == {Preset(<<"2", ",", " ", "1">>), Random(IntText(1)),
               Range(IntText(1), IntText(2), IntText(0 - 1))}

NextLive ==
    \/ SetSeedInput(LiveInputs)
    \/ GenerateBatch
    \/ DrawRandom
    \/ Resume

SpecLive == Init /\ [][NextLive]_vars /\ SF_vars(Resume) /\ WF_vars(DrawRandom)

\* Seed resolution alone, over the larger set of seed inputs: the page with
\* any of them typed, then updateSeedPreview.
InitResolve ==
    /\ model = DefaultModel
    /\ seedInput \in ResolveInputs
    /\ preview = PreviewOf(Returned(<<>>))
    /\ isGenerating = FALSE
    /\ generatedFiles = <<>>
    /\ errors = <<>>
    /\ pc = "idle"
    /\ seeds = <<>>
    /\ kinds = NoKinds
    /\ i = 0
    /\ currentStep = 0
    /\ totalSteps = 0
    /\ pending = <<>>
    /\ draw = NoDraw
    /\ progress = <<>>
    /\ outcome = <<>>
    /\ fileLog = <<>>
    /\ engineCalls = 0
    /\ activeRuns = 0
    /\ lastOp = Op("constructor", "typed", <<>>, NoResult, FALSE)
    /\ results = Hidden
    /\ startModel = DefaultModel
    /\ configChanges = 0
    /\ zipJobs = <<>>
    /\ shipped = NoShipment
    /\ jszip = TRUE

NextResolve ==
    \/ UpdateSeedPreview
    \/ DrawRandom

SpecResolve == InitResolve /\ [][NextResolve]_vars

\* Packaging: the page with a list of two seeds typed, with or without the
\* archive library; runs and downloads.
PackInputs == {Comma(<<"1", ",", "2">>)}

InitPack ==
    /\ model = DefaultModel
    /\ seedInput \in PackInputs
    /\ preview = PreviewOf(getSeedsFromInput(seedInput))
    /\ isGenerating = FALSE
    /\ generatedFiles = <<>>
    /\ errors = <<>>
    /\ pc = "idle"
    /\ seeds = <<>>
    /\ kinds = NoKinds
    /\ i = 0
    /\ currentStep = 0
    /\ totalSteps = 0
    /\ pending = <<>>
    /\ draw = NoDraw
    /\ progress = <<>>
    /\ outcome = <<>>
    /\ fileLog = <<>>
    /\ engineCalls = 0
    /\ activeRuns = 0
    /\ lastOp = Op("updateSeedPreview", "shown", <<>>, getSeedsFromInput(seedInput), FALSE)
    /\ results = Hidden
    /\ startModel = DefaultModel
    /\ configChanges = 0
    /\ zipJobs = <<>>
    /\ shipped = NoShipment
    /\ jszip \in BOOLEAN

NextPack ==
    \/ GenerateBatch
    \/ Resume
    \/ DownloadZip
    \/ ZipDone

SpecPack == InitPack /\ [][NextPack]_vars

\* Settings: the page with a list of two seeds typed; runs, and changes of
\* the settings at any point, also while a run is suspended.
ConfigInputs == {Comma(<<"1", ",", "2">>)}

InitConfig ==
    /\ model = DefaultModel
    /\ seedInput \in ConfigInputs
    /\ preview = PreviewOf(getSeedsFromInput(seedInput))
    /\ isGenerating = FALSE
    /\ generatedFiles = <<>>
    /\ errors = <<>>
    /\ pc = "idle"
    /\ seeds = <<>>
    /\ kinds = NoKinds
    /\ i = 0
    /\ currentStep = 0
    /\ totalSteps = 0
    /\ pending = <<>>
    /\ draw = NoDraw
    /\ progress = <<>>
    /\ outcome = <<>>
    /\ fileLog = <<>>
    /\ engineCalls = 0
    /\ activeRuns = 0
    /\ lastOp = Op("updateSeedPreview", "shown", <<>>, getSeedsFromInput(seedInput), FALSE)
    /\ results = Hidden
    /\ startModel = DefaultModel
    /\ configChanges = 0
    /\ zipJobs = <<>>
    /\ shipped = NoShipment
    /\ jszip = TRUE

NextConfig ==
    \/ GenerateBatch
    \/ Resume
    \/ SelectShape
    \/ SelectAlgorithm
    \/ SelectExitConfig
    \/ UpdateSizeParameter

SpecConfig == InitConfig /\ [][NextConfig]_vars

\* Archive names: the page with one seed typed; runs, changes of the shape,
\* the algorithm and a size value, and downloads through the archive library.
ArchiveInputs == {Comma(<<"1">>)}

InitArchive ==
    /\ model = DefaultModel
    /\ seedInput \in ArchiveInputs
    /\ preview = PreviewOf(getSeedsFromInput(seedInput))
    /\ isGenerating = FALSE
    /\ generatedFiles = <<>>
    /\ errors = <<>>
    /\ pc = "idle"
    /\ seeds = <<>>
    /\ kinds = NoKinds
    /\ i = 0
    /\ currentStep = 0
    /\ totalSteps = 0
    /\ pending = <<>>
    /\ draw = NoDraw
    /\ progress = <<>>
    /\ outcome = <<>>
    /\ fileLog = <<>>
    /\ engineCalls = 0
    /\ activeRuns = 0
    /\ lastOp = Op("updateSeedPreview", "shown", <<>>, getSeedsFromInput(seedInput), FALSE)
    /\ results = Hidden
    /\ startModel = DefaultModel
    /\ configChanges = 0
    /\ zipJobs = <<>>
    /\ shipped = NoShipment
    /\ jszip = TRUE

NextArchive ==
    \/ GenerateBatch
    \/ Resume
    \/ SelectShape
    \/ SelectAlgorithm
    \/ UpdateSizeParameter
    \/ DownloadZip
    \/ ZipDone

SpecArchive == InitArchive /\ [][NextArchive]_vars

\* ------------------------------------------------------------- properties
\* The requested kinds, in the order generateBatch produces them.
Requested(ks) == SelectSeq(<<"maze", "solution", "distance">>, LAMBDA k : ks[k])

\* The seed positions whose processing threw, in order.
FailedPositions == SelectSeq(ListOf([p \in 1..Len(outcome) |-> p]),
                             LAMBDA p : outcome[p] # "ok")

\* The message of the error thrown at a recorded failure point.
MessageAt(point) == IF point = "build" THEN EngineMessage ELSE Message(point)

\* C1: when generateBatch completes, every seed position was processed (one
\* engine call each); every position that did not fail has logged exactly its
\* requested kinds, in order; and the error list holds exactly one entry per
\* failing position, in order, made of that seed and the thrown message.
C1_FailureIsolation ==
    pc = "done" =>
        /\ Len(outcome) = Len(seeds)
        /\ engineCalls = Len(seeds)
        /\ \A p \in 1..Len(seeds) :
             outcome[p] = "ok" =>
                 SelectSeq(fileLog, LAMBDA e : e[1] = p)
                     = ListOf([k \in 1..KindCount(kinds) |-> <<p, Requested(kinds)[k]>>])
        /\ errors = ListOf([j \in 1..Len(FailedPositions) |->
                               ErrorEntry(seeds[FailedPositions[j]],
                                          MessageAt(outcome[FailedPositions[j]]))])

\* A completed run of two seeds and three kinds whose first seed failed and
\* whose second seed did not.
C1_Witness ==
    /\ pc = "done"
    /\ Len(seeds) = 2
    /\ KindCount(kinds) = 3
    /\ outcome = <<"solution", "ok">>
    /\ Len(errors) = 1
    /\ Len(generatedFiles) = 4

LeqFrac(a, b) == a[1] * b[2] <= b[1] * a[2]
IsOne(a) == a[1] = a[2]

\* C2: when generateBatch completes, the fractions it passed to
\* updateProgress are non-decreasing and the last of them is exactly 1.
C2_ProgressReachesOne ==
    pc = "done" =>
        /\ \A k \in 1..(Len(progress) - 1) : LeqFrac(progress[k], progress[k + 1])
        /\ IsOne(progress[Len(progress)])

\* C3: when generateBatch completes, no two entries of generatedFiles have
\* the same name.
C3_NamesDistinct ==
    pc = "done" =>
        \A a, b \in 1..Len(generatedFiles) :
            a # b => generatedFiles[a].name # generatedFiles[b].name

\* C4: a generateBatch call made while isGenerating is set changes nothing
\* of the run in flight (no engine call, lists, guard and step counter as
\* they were), and at most one generateBatch loop is active at any time.
C4_ReentrantNoop ==
    /\ [](activeRuns <= 1)
    /\ [][(isGenerating /\ GenerateBatch) => UNCHANGED <<runVars, draw, preview>>]_vars

\* generateBatch was called and returned at once while the second seed of a
\* run was awaited.
C4_Witness ==
    /\ lastOp.op = "generateBatch"
    /\ lastOp.status = "noop"
    /\ isGenerating
    /\ pc = "await"
    /\ i = 2
    /\ Len(generatedFiles) > 0

\* C10: the guard is set (and the engine called) only by a generateBatch
\* call with at least one kind checked whose seed resolution returned
\* between 1 and 100 seeds; a generateBatch call whose resolution returned
\* no seed or more than 100 is rejected and leaves the run state as it was.
C10_StartOnlyIfValid ==
    [][/\ (~isGenerating /\ isGenerating') =>
            /\ lastOp'.op = "generateBatch"
            /\ lastOp'.status = "started"
            /\ KindCount(kinds') >= 1
            /\ lastOp'.res.ok
            /\ Len(lastOp'.res.seeds) \in 1..MaxSeeds
            /\ seeds' = lastOp'.res.seeds
       /\ (engineCalls' # engineCalls) => (isGenerating \/ isGenerating')
       /\ (/\ lastOp'.op = "generateBatch"
           /\ lastOp'.res.ok
           /\ Len(lastOp'.res.seeds) \notin 1..MaxSeeds) =>
            /\ lastOp'.status = "rejected"
            /\ lastOp'.alert # <<>>
            /\ UNCHANGED runVars]_vars

\* After a completed run, generateBatch rejected a preset list of 101 seeds.
C10_Witness ==
    /\ lastOp.op = "generateBatch"
    /\ lastOp.status = "rejected"
    /\ seedInput.method = "preset"
    /\ lastOp.res.ok
    /\ Len(lastOp.res.seeds) = MaxSeeds + 1
    /\ pc = "done"
    /\ Len(generatedFiles) > 0
    /\ ~isGenerating

\* updateSeedPreview has resolved the seed input and holds the outcome.
Resolved == lastOp.op = "updateSeedPreview" /\ draw.caller = "none"

\* The range fields hold numbers for start and end.
RangeGiven ==
    /\ seedInput.method = "range"
    /\ ~ParseInt(seedInput.start).nan
    /\ ~ParseInt(seedInput.end).nan

\* start, start +- step, ... towards end: floor(|end - start| / step) + 1
\* elements.
Progression(start, end, step) ==
    ListOf([k \in 1..(Abs(end - start) \div step + 1) |->
               IF start <= end THEN start + (k - 1) * step
               ELSE start - (k - 1) * step])

\* C5: range resolution with a step typed as an integer <= 0 throws "Step
\* value must be positive" (and returns no seeds); with the step field left
\* empty it returns the progression of step 1.
C5_NonPositiveStepFails ==
    (Resolved /\ RangeGiven) =>
        /\ (~ParseInt(seedInput.step).nan /\ ParseInt(seedInput.step).val <= 0) =>
               lastOp.res = Thrown(<<"Step value must be positive">>)
        /\ (seedInput.step = <<>>) =>
               lastOp.res = Returned(Progression(ParseInt(seedInput.start).val,
                                                 ParseInt(seedInput.end).val, 1))

\* C6: random resolution with a count typed as an integer outside 1..100
\* throws "Count must be between 1 and 100" (and returns no seeds).
C6_CountOutsideFails ==
    (/\ Resolved
     /\ seedInput.method = "random"
     /\ ~ParseInt(seedInput.count).nan
     /\ ParseInt(seedInput.count).val \notin 1..MaxRandomCount) =>
        lastOp.res = Thrown(<<"Count must be between 1 and 100">>)

\* C7: random resolution with a count in 1..100, once it returns, returns
\* exactly count seeds, each in 1..999999, in strictly ascending order (so
\* pairwise distinct), whatever was drawn.
C7_RandomSeeds ==
    (/\ Resolved
     /\ lastOp.status = "shown"
     /\ seedInput.method = "random"
     /\ ~ParseInt(seedInput.count).nan
     /\ ParseInt(seedInput.count).val \in 1..MaxRandomCount) =>
        LET s == lastOp.res.seeds
        IN /\ lastOp.res.ok
           /\ Len(s) = ParseInt(seedInput.count).val
           /\ \A k \in 1..Len(s) : s[k] \in 1..RandomSpan
           /\ \A k \in 1..(Len(s) - 1) : s[k] < s[k + 1]

\* Three seeds were returned after a drawn value had to be drawn again.
C7_Witness ==
    /\ Resolved
    /\ lastOp.status = "shown"
    /\ seedInput.method = "random"
    /\ seedInput.count = <<"3">>
    /\ Len(lastOp.res.seeds) = 3
    /\ lastOp.retried

\* A token that is a base-10 integer: an optional sign, then decimal digits
\* only.
IsBase10Integer(token) ==
    LET body == IF token # <<>> /\ Head(token) \in {"-", "+"} THEN Tail(token) ELSE token
    IN /\ body # <<>>
       /\ \A k \in 1..Len(body) : IndexIn(Digits, body[k]) > 0

RECURSIVE Base10Digits(_)
Base10Digits(body) ==
    IF body = <<>> THEN 0
    ELSE Base10Digits(SubSeq(body, 1, Len(body) - 1)) * 10
         + (IndexIn(Digits, body[Len(body)]) - 1)

\* The integer a base-10 token denotes.
Base10Value(token) ==
    IF Head(token) = "-" THEN 0 - Base10Digits(Tail(token))
    ELSE IF Head(token) = "+" THEN Base10Digits(Tail(token))
    ELSE Base10Digits(token)

\* C8: explicit-list resolution splits on commas, trims, drops the empty
\* tokens; when every token is a base-10 integer it returns their values in
\* order (the empty list for an empty input), and otherwise it throws
\* "Invalid seed: " followed by the first token that is not one, returning
\* no seeds.
C8_ExplicitList ==
    (Resolved /\ seedInput.method = "comma") =>
        LET tokens == Tokens(seedInput.text)
            bad == {k \in 1..Len(tokens) : ~IsBase10Integer(tokens[k])}
        IN IF bad = {}
           THEN lastOp.res = Returned(ListOf([k \in 1..Len(tokens) |->
                                                 Base10Value(tokens[k])]))
           ELSE lastOp.res = Thrown(<<"Invalid seed: ">>
                                    \o tokens[CHOOSE k \in bad : \A j \in bad : k <= j])

\* C9: range resolution with numbers for start and end and a step typed as
\* an integer > 0 returns the progression from start by step towards end:
\* first element start, floor(|end - start| / step) + 1 elements.
C9_RangeProgression ==
    (/\ Resolved
     /\ RangeGiven
     /\ ~ParseInt(seedInput.step).nan
     /\ ParseInt(seedInput.step).val > 0) =>
        /\ lastOp.res = Returned(Progression(ParseInt(seedInput.start).val,
                                             ParseInt(seedInput.end).val,
                                             ParseInt(seedInput.step).val))
        /\ lastOp.res.seeds[1] = ParseInt(seedInput.start).val

\* range(5, 1, 2) was resolved to [5, 3, 1].
C9_Witness ==
    /\ Resolved
    /\ seedInput = Range(<<"5">>, <<"1">>, <<"2">>)
    /\ lastOp.res = Returned(<<5, 3, 1>>)

\* C11: a generateBatch call that rejects its input (no kind checked, seed
\* input that cannot be resolved, no seed or more than 100) alerts and leaves
\* the run state (guard, lists, engine calls, step counter), the settings
\* and the downloads as they were, with the guard clear.
C11_RejectionFrame ==
    [][(GenerateBatch /\ lastOp'.status = "rejected") =>
           /\ UNCHANGED <<runVars, model, packVars, draw>>
           /\ ~isGenerating'
           /\ lastOp'.alert # <<>>]_vars

\* generateBatch rejected a range with a negative step after a run that had
\* produced files and errors, which are still there.
C11_Witness ==
    /\ lastOp.op = "generateBatch"
    /\ lastOp.status = "rejected"
    /\ lastOp.alert = <<"Step value must be positive">>
    /\ Len(generatedFiles) > 0
    /\ Len(errors) > 0
    /\ ~isGenerating

\* C13: every file's markup shows the overlays of its own kind only: a maze
\* file neither path nor distances, a solution file the path and no
\* distances, a distance file the distances and no path.
C13_OverlayClean ==
    /\ Len(fileLog) = Len(generatedFiles)
    /\ \A j \in 1..Len(generatedFiles) :
         LET svg == generatedFiles[j].content.svg
             kind == fileLog[j][2]
         IN /\ svg.path = (kind = "solution")
            /\ svg.distances = (kind = "distance")

\* The three kinds were rendered for one seed, the distance file after the
\* solution file.
C13_Witness ==
    /\ Len(generatedFiles) >= 3
    /\ fileLog[2] = <<1, "solution">>
    /\ fileLog[3] = <<1, "distance">>
    /\ generatedFiles[2].content.svg.path
    /\ generatedFiles[3].content.svg.distances

\* C16: the content of every maze file is the markup of a handle freshly
\* built for the settings and that file's seed, whatever was processed
\* before it; so two maze files of the same seed have the same content.
C16_MazeDeterminism ==
    /\ \A j \in 1..Len(generatedFiles) :
         fileLog[j][2] = "maze" =>
             generatedFiles[j].content
                 = generateMazeSvg(BuildMaze(model, seeds[fileLog[j][1]]))
    /\ \A a, b \in 1..Len(generatedFiles) :
         (/\ fileLog[a][2] = "maze"
          /\ fileLog[b][2] = "maze"
          /\ seeds[fileLog[a][1]] = seeds[fileLog[b][1]]) =>
             generatedFiles[a].content = generatedFiles[b].content

\* The seed 1 was processed twice in one run, with a solution and a distance
\* file between its two maze files.
C16_Witness ==
    /\ pc = "done"
    /\ seeds = <<1, 1>>
    /\ Len(generatedFiles) = 6
    /\ fileLog[1] = <<1, "maze">>
    /\ fileLog[4] = <<2, "maze">>
    /\ generatedFiles[1].content = generatedFiles[4].content

\* C17: after each processed seed the step counter is the number of seeds
\* processed times the number of requested kinds; it never exceeds
\* totalSteps and equals it when the loop has ended.
C17_StepCounter ==
    (pc \in {"await", "done"}) =>
        /\ currentStep = Len(outcome) * KindCount(kinds)
        /\ currentStep <= totalSteps
        /\ (pc = "done") => (currentStep = totalSteps)

\* C18 as stated: the guard is cleared only after showResults has
\* completed, so it is still set when showResults runs.
C18_ClearedAfterResults == results.shown => results.guard

\* C18 amended: the guard is set whenever generateBatch is suspended at its
\* await, it is set by the step that reaches the first await, and it is
\* cleared after the last seed's turn by the same step that then shows the
\* results, which therefore run with the guard already clear.
C18_GuardHeld ==
    /\ [](pc = "await" => isGenerating)
    /\ [][(pc # "await" /\ pc' = "await") => isGenerating']_vars
    /\ [][(isGenerating /\ ~isGenerating') =>
              /\ pc' = "done"
              /\ Len(outcome') = Len(seeds')
              /\ results' = Summary(generatedFiles', errors', FALSE)]_vars

\* A run of two seeds has ended: the guard is clear and the results are shown.
C18_Witness ==
    /\ pc = "done"
    /\ ~isGenerating
    /\ Len(seeds) = 2
    /\ results.shown
    /\ results.files = 3
    /\ Len(results.errors) = 1

PrefixOf(kind) == CASE kind = "maze" -> "Map"
                    [] kind = "solution" -> "Sol"
                    [] kind = "distance" -> "Dist"

\* C19: when generateBatch completes and no seed failed, generatedFiles is
\* one file per seed position and requested kind, by seed position and
\* within a seed in the order maze, solution, distance, each named
\* <Map|Sol|Dist>_maze_<shape>_<sizes joined by _>_<seed>.svg, and nothing
\* else.
C19_ArtifactList ==
    (pc = "done" /\ \A p \in 1..Len(outcome) : outcome[p] = "ok") =>
        LET K == KindCount(kinds)
        IN /\ Len(generatedFiles) = Len(seeds) * K
           /\ \A j \in 1..Len(generatedFiles) :
                LET p == (j - 1) \div K + 1
                    kind == Requested(kinds)[((j - 1) % K) + 1]
                IN /\ fileLog[j] = <<p, kind>>
                   /\ generatedFiles[j].name
                          = FileName(PrefixOf(kind), model, seeds[p])

\* The preset 2, 1 was run with the three kinds and no failure.
C19_Witness ==
    /\ pc = "done"
    /\ seeds = <<2, 1>>
    /\ Len(generatedFiles) = 6
    /\ generatedFiles[1].name = "Map_maze_square_10_10_2.svg"
    /\ generatedFiles[2].name = "Sol_maze_square_10_10_2.svg"
    /\ generatedFiles[3].name = "Dist_maze_square_10_10_2.svg"
    /\ generatedFiles[4].name = "Map_maze_square_10_10_1.svg"

\* C12: a started run reaches its end with the guard cleared and every seed
\* of the list attempted; while it is suspended, the seed awaited is the one
\* at position i, after i - 1 seeds processed and with i engine calls made,
\* whatever failed before.
C12_RunCompletes ==
    /\ [](pc = "await" =>
            /\ isGenerating
            /\ i \in 1..Len(seeds)
            /\ engineCalls = i
            /\ Len(outcome) = i - 1
            /\ (pending # <<>>) => (pending[1].randomSeed = seeds[i]))
    /\ isGenerating ~> (/\ pc = "done"
                        /\ ~isGenerating
                        /\ Len(outcome) = Len(seeds)
                        /\ engineCalls = Len(seeds))

\* A run of two seeds has ended although both seeds failed.
C12_Witness ==
    /\ pc = "done"
    /\ ~isGenerating
    /\ Len(seeds) = 2
    /\ outcome = <<"build", "maze">>
    /\ engineCalls = 2
    /\ Len(errors) = 2


\* C14: a downloadZip call on a non-empty artifact list that does not fail
\* hands over, when the archive library is unavailable, one file per artifact
\* under the artifact's name, in list order, and no archive; when the library
\* is available it hands over no individual file, and its completion hands
\* over exactly one archive, holding what was packaged.
C14_PackagingPath ==
    [][/\ (DownloadZip /\ generatedFiles # <<>> /\ ~jszip /\ lastOp'.status # "failed")
            => /\ shipped'.archives = <<>>
               /\ Len(shipped'.files) = Len(generatedFiles)
               /\ \A k \in 1..Len(generatedFiles) :
                      shipped'.files[k] = generatedFiles[k].name
               /\ zipJobs' = zipJobs
       /\ (DownloadZip /\ generatedFiles # <<>> /\ jszip)
            => /\ shipped' = NoShipment
               /\ Len(zipJobs') = Len(zipJobs) + 1
       /\ (ZipDone /\ lastOp'.status = "zipped")
            => /\ shipped'.files = <<>>
               /\ Len(shipped'.archives) = 1
               /\ \E j \in 1..Len(zipJobs) : shipped'.archives[1].entries = zipJobs[j]
               /\ Len(zipJobs') = Len(zipJobs) - 1
      ]_vars

C14_Witness ==
    /\ ~jszip
    /\ lastOp.op = "downloadZip"
    /\ lastOp.status = "individual"
    /\ Len(generatedFiles) >= 2
    /\ Len(shipped.files) = Len(generatedFiles)

\* C15: a packaging failure is reported as the one alert "Download failed:
\* <message>", and no downloadZip step, failing or not, changes the artifact
\* list, the error list or the guard (nor any other state of the run), so a
\* following downloadZip call packages the same artifacts.
C15_PackagingFailure ==
    [][(DownloadZip \/ ZipDone)
          => /\ UNCHANGED <<generatedFiles, errors, isGenerating>>
             /\ UNCHANGED runVars
             /\ lastOp'.status = "failed"
                   => lastOp'.alert = <<"Download failed: " \o PackMessage>>
      ]_vars

C15_Witness ==
    /\ lastOp.op = "downloadZip"
    /\ lastOp.status = "failed"
    /\ Len(generatedFiles) >= 2
    /\ shipped.archives = <<>>
    /\ Len(shipped.files) < Len(generatedFiles)


\* The settings a maze handle was built with.
ConfigOf(maze) ==
    [shape |-> maze.grid.cellShape, size |-> maze.grid.size,
     algorithm |-> maze.algorithm, exitConfig |-> maze.exitConfig]

\* C20: every engine call and every file name of a run uses the settings in
\* effect when the run started: the handle awaited and the handle each file
\* was rendered from were built with them, and each file is named after them.
C20_ConfigImmutable ==
    pc \in {"await", "done"} =>
        /\ \A h \in 1..Len(pending) : ConfigOf(pending[h]) = startModel
        /\ \A j \in 1..Len(generatedFiles) :
              /\ ConfigOf(generatedFiles[j].content.svg) = startModel
              /\ generatedFiles[j].name
                     = FileName(PrefixOf(fileLog[j][2]), startModel, seeds[fileLog[j][1]])


\* C21: preset resolution is the same function as explicit-list resolution:
\* whatever text the comma or the preset field holds, the resolution returns
\* what parseCommaSeeds and parsePresetSeeds both give for that text, the
\* same seeds or the same error, also for an empty or white-space-only text.
C21_PresetAsComma ==
    (Resolved /\ seedInput.method \in {"comma", "preset"}) =>
        /\ lastOp.res = parseCommaSeeds(seedInput.text)
        /\ lastOp.res = parsePresetSeeds(seedInput.text)

\* A preset of one space was resolved to no seed, as parseCommaSeeds does by
\* its test of the trimmed text.
C21_Witness ==
    /\ Resolved
    /\ seedInput = Preset(<<" ">>)
    /\ lastOp.res = Returned(<<>>)
    /\ parseCommaSeeds(<<" ">>) = Returned(<<>>)


\* The number of files in the artifact list that came from seed position p.
FilesOf(p) == Cardinality({j \in 1..Len(fileLog) : fileLog[j][1] = p})

\* C22: at completion of a run every seed position has contributed either
\* all K requested files and no error entry, or one error entry and no file.
C22_AllOrNothing ==
    pc = "done" =>
        /\ Len(errors) = Cardinality({p \in 1..Len(outcome) : outcome[p] # "ok"})
        /\ \A p \in 1..Len(seeds) :
              FilesOf(p) = IF outcome[p] = "ok" THEN KindCount(kinds) ELSE 0


\* C23: whenever downloadZip packages files (hands them over one by one or
\* adds them to an archive), the list it packages is the whole list of a
\* finished run: no run is in flight at that moment.
C23_NoPartialBatch ==
    (lastOp.op = "downloadZip" /\ lastOp.status \in {"individual", "zipping"}) =>
        /\ ~isGenerating
        /\ pc = "done"

\* C24: the name of an archive handed over names the shape and the size
\* values that the names of the files inside it carry: every entry is named
\* as a file of the settings the archive is named after.
C24_ArchiveNameMatches ==
    (lastOp.op = "downloadZip" /\ lastOp.status = "zipped") =>
        LET archive == shipped.archives[1]
        IN /\ \E timestamp \in Timestamps : archive.name = ArchiveName(model, timestamp)
           /\ \A e \in 1..Len(archive.entries) :
                \E kind \in {"maze", "solution", "distance"}, k \in 1..Len(seeds) :
                    archive.entries[e].name = FileName(PrefixOf(kind), model, seeds[k])

\* C25: the seeds a run was started with are the seeds the preview shows,
\* the seed input being as it was when the preview was last computed.
C25_PreviewedSeeds ==
    (lastOp.op = "generateBatch" /\ lastOp.status = "started") =>
        preview = PreviewOf(Returned(seeds))

====
